---------------------------- MODULE Spec2Model ----------------------------
(***************************************************************************)
(* A model of fio_metrics.py: the unit conversion _convert_value and the   *)
(* per-job loop of FioMetrics._extract_metrics.                            *)
(*                                                                         *)
(* Python strings that the code parses are sequences of one-character      *)
(* strings (<<"1","0","s">> is '10s').  A converted number is a record      *)
(* [m, e] standing for m * 10^e: Python integers are unbounded and the     *)
(* multipliers 0.001 and 10**(-3) are floats, so e = -3 marks a float      *)
(* result and e >= 0 an int.                                               *)
(***************************************************************************)
EXTENDS Integers, Sequences, FiniteSets, TLC

VARIABLES
  fio_out,             \* the argument of _extract_metrics
  pc,                  \* position in _extract_metrics
  global_filesize,     \* line 147
  global_ramptime_ms,  \* line 148
  i,                   \* the loop index of line 158 (1-based: next job)
  prev_endtime_s,      \* line 157
  all_jobs,            \* line 156
  raised,              \* the exception that left the call, or "none"
  trail,               \* history: what each iteration computed
  cv_value,            \* _convert_value: argument value
  cv_dict,             \* _convert_value: name of the conversion_dict
  cv_out               \* _convert_value: outcome, or pending

vars == <<fio_out, pc, global_filesize, global_ramptime_ms, i, prev_endtime_s,
          all_jobs, raised, trail, cv_value, cv_dict, cv_out>>

extractVars == <<fio_out, pc, global_filesize, global_ramptime_ms, i,
                 prev_endtime_s, all_jobs, raised, trail>>
convertVars == <<cv_value, cv_dict, cv_out>>

---------------------------------------------------------------------------
(* Bounds of the model.                                                    *)
MaxJobs == 2     \* longest jobs list explored
MaxLen == 3      \* longest string handed to _convert_value on its own

---------------------------------------------------------------------------
(* Characters and the regular expression of line 75.                       *)
DigitSeq == <<"0", "1", "2", "3", "4", "5", "6", "7", "8", "9">>
LowerSeq == <<"a", "b", "c", "d", "e", "f", "g", "h", "i", "j", "k", "l", "m",
              "n", "o", "p", "q", "r", "s", "t", "u", "v", "w", "x", "y", "z">>
UpperSeq == <<"A", "B", "C", "D", "E", "F", "G", "H", "I", "J", "K", "L", "M",
              "N", "O", "P", "Q", "R", "S", "T", "U", "V", "W", "X", "Y", "Z">>

Range(s) == {s[k] : k \in DOMAIN s}

\* [0-9]
IsDigit(c) == c \in Range(DigitSeq)
\* [A-Za-z]
IsAlpha(c) == c \in Range(LowerSeq) \cup Range(UpperSeq)

\* the end of the greedy match of [0-9]+ that starts at position k
DigitRunEnd(s, k) ==
  CHOOSE j \in k..Len(s) :
    /\ \A x \in k..j : IsDigit(s[x])
    /\ (j = Len(s) \/ ~IsDigit(s[j + 1]))

\* the end of the greedy match of [A-Za-z]+ that starts at position k
AlphaRunEnd(s, k) ==
  CHOOSE j \in k..Len(s) :
    /\ \A x \in k..j : IsAlpha(s[x])
    /\ (j = Len(s) \/ ~IsAlpha(s[j + 1]))

\* re.findall('[0-9]+|[A-Za-z]+', value): scan left to right, at each
\* position try the digit alternative, then the letter alternative, else
\* move one character on.
RECURSIVE Scan(_, _, _)
Scan(s, k, acc) ==
  IF k > Len(s) THEN acc
  ELSE IF IsDigit(s[k])
    THEN Scan(s, DigitRunEnd(s, k) + 1, Append(acc, SubSeq(s, k, DigitRunEnd(s, k))))
  ELSE IF IsAlpha(s[k])
    THEN Scan(s, AlphaRunEnd(s, k) + 1, Append(acc, SubSeq(s, k, AlphaRunEnd(s, k))))
  ELSE Scan(s, k + 1, acc)

FindAll(value) == Scan(value, 1, <<>>)

\* str.lower() on one character
LowerNoFold(c) == c
LowerChar(c) ==
  IF c \in Range(UpperSeq)
    THEN LowerSeq[CHOOSE k \in DOMAIN UpperSeq : UpperSeq[k] = c]
    ELSE c

\* unit.lower()
Lower(s) == [k \in DOMAIN s |-> LowerChar(s[k])]

DigitVal(c) == (CHOOSE k \in DOMAIN DigitSeq : DigitSeq[k] = c) - 1

\* int(num) succeeds on a run of decimal digits
IsInt(s) == Len(s) > 0 /\ \A k \in DOMAIN s : IsDigit(s[k])

RECURSIVE IntOf(_)
IntOf(s) ==
  IF Len(s) = 0 THEN 0
  ELSE 10 * IntOf(SubSeq(s, 1, Len(s) - 1)) + DigitVal(s[Len(s)])

---------------------------------------------------------------------------
(* The multiplier tables, lines 36-57.  [c, e] is the multiplier c * 10^e. *)
Mult(c, e) == [c |-> c, e |-> e]

FILESIZE_CONVERSION ==
  (<<"b">> :> Mult(1, -3)) @@
  (<<"k">> :> Mult(1, 0)) @@ (<<"k", "b">> :> Mult(1, 0)) @@
  (<<"m">> :> Mult(1, 3)) @@ (<<"m", "b">> :> Mult(1, 3)) @@
  (<<"g">> :> Mult(1, 6)) @@ (<<"g", "b">> :> Mult(1, 6)) @@
  (<<"t">> :> Mult(1, 9)) @@ (<<"t", "b">> :> Mult(1, 9)) @@
  (<<"p">> :> Mult(1, 12)) @@ (<<"p", "b">> :> Mult(1, 12))

RAMPTIME_CONVERSION ==
  (<<"u", "s">> :> Mult(1, -3)) @@
  (<<"m", "s">> :> Mult(1, 0)) @@
  (<<"s">> :> Mult(1, 3)) @@
  (<<"m">> :> Mult(6, 4)) @@
  (<<"h">> :> Mult(36, 5)) @@
  (<<"d">> :> Mult(864, 5))

Num(m, e) == [m |-> m, e |-> e]
Zero == Num(0, 0)

Ok(v) == [err |-> "none", val |-> v]
Fail(kind) == [err |-> kind, val |-> Zero]

\* _convert_value, lines 75-78.  Line 75 unpacks the matches into exactly
\* two names (ValueError otherwise), line 76 looks the lowered second match
\* up (KeyError), line 77 calls int() on the first match (ValueError).
_convert_value(value, conversion_dict) ==
  LET runs == FindAll(value) IN
  IF Len(runs) # 2 THEN Fail("ValueError")
  ELSE LET num == runs[1]
           unit == runs[2]
       IN IF Lower(unit) \notin DOMAIN conversion_dict THEN Fail("KeyError")
          ELSE IF ~IsInt(num) THEN Fail("ValueError")
          ELSE Ok(Num(IntOf(num) * conversion_dict[Lower(unit)].c,
                      conversion_dict[Lower(unit)].e))

---------------------------------------------------------------------------
(* The report handed to _extract_metrics.                                  *)

\* an option that the mapping does not contain
NoKey == <<"<absent>">>

\* 'global options' / 'job options': present says whether the report (job)
\* has the mapping at all; each option is a string or NoKey.
Opts(fs, rt, nj) ==
  [present |-> TRUE, filesize |-> fs, ramp_time |-> rt, numjobs |-> nj]
NoOpts ==
  [present |-> FALSE, filesize |-> NoKey, ramp_time |-> NoKey, numjobs |-> NoKey]

\* job['read']: missing holds the keys the job lacks
Read(v, rt, missing) ==
  [iops |-> v.iops, bw |-> v.bw, min |-> v.min, max |-> v.max, mean |-> v.mean,
   runtime |-> rt, missing |-> missing]

Metrics(a, b, c, d, e) == [iops |-> a, bw |-> b, min |-> c, max |-> d, mean |-> e]
NonZero == Metrics(9, 7, 3, 8, 5)
AllZero == Metrics(0, 0, 0, 0, 0)
OnlyBw  == Metrics(0, 7, 0, 0, 0)

Job(name, opts, read) == [jobname |-> name, opts |-> opts, read |-> read]

\* Jobs that exercise the validity filter: every combination of empty or
\* set jobname, zero or non-zero metrics, zero or positive runtime.
FilterJobs ==
  {Job(n, NoOpts, Read(v, rt, {})) :
     n \in {"", "j1"}, v \in {AllZero, NonZero}, rt \in {0, 1500}}

\* Jobs that vary one thing of a complete job.
OptionJobs ==
  {Job("j1", o, Read(NonZero, 1500, {})) :
     o \in {Opts(<<"2", "k">>, NoKey, NoKey),
            Opts(<<"1", "5", "0", "0", "b">>, NoKey, NoKey),
            Opts(<<"3", "M", "B">>, NoKey, NoKey),
            Opts(NoKey, <<"0", "s">>, NoKey),
            Opts(NoKey, <<"2", "s">>, NoKey),
            Opts(NoKey, <<"5", "0", "0", "u", "s">>, NoKey),
            Opts(NoKey, NoKey, <<"4">>)}} \cup
  {Job("j1", Opts(NoKey, <<"1", "0", "s">>, <<"4", "0">>),
       Read(NonZero, 60476, {}))}

OtherJobs ==
  {Job("j1", NoOpts, Read(NonZero, 1500, {"read"})),
   Job("j1", NoOpts, Read(NonZero, 1500, {"mean"})),
   Job("j1", NoOpts, Read(OnlyBw, 1500, {})),
   Job("j1", NoOpts, Read(NonZero, 400, {})),
   Job("", Opts(NoKey, <<"1", "x">>, NoKey), Read(AllZero, 1500, {}))}

JobSet == FilterJobs \cup OptionJobs \cup OtherJobs

GlobalSet ==
  {NoOpts,
   Opts(<<"5", "0", "M">>, NoKey, NoKey),
   Opts(<<"5", "0", "M">>, <<"1", "s">>, <<"8">>),
   Opts(NoKey, <<"1", "x">>, NoKey)}

TimestampSet == {1000, 155355}

JobLists == UNION {[1..n -> JobSet] : n \in 0..MaxJobs}

Report(empty, hasJobs, g, ts, jobs) ==
  [empty |-> empty, hasJobs |-> hasJobs, global |-> g, timestamp_ms |-> ts,
   jobs |-> jobs]

\* {} or None; a report without the 'jobs' key; reports with a jobs list
Reports ==
  {Report(TRUE, FALSE, NoOpts, 0, <<>>)} \cup
  {Report(FALSE, FALSE, g, ts, <<>>) : g \in {NoOpts}, ts \in TimestampSet} \cup
  {Report(FALSE, TRUE, g, ts, js) :
     g \in GlobalSet, ts \in TimestampSet, js \in JobLists}

---------------------------------------------------------------------------
(* The steps of one loop iteration, lines 158-224.                         *)

\* lines 161-168: a key of the job that is indexed and missing
MetricKeyErrorNever(job) == FALSE
MetricKeyError(job) ==
  \E k \in {"read", "iops", "bw", "lat_ns", "min", "max", "mean"} :
    k \in job.read.missing

\* lines 171-175
JobNumjobs(job) ==
  IF job.opts.present /\ job.opts.numjobs # NoKey
    THEN job.opts.numjobs ELSE <<"1">>

\* lines 160, 177-178, 184-185: filesize starts as 0, takes the job's
\* option, and is replaced by the global value when falsy (0 or '')
JobFilesize(job, gfs) ==
  LET own == IF job.opts.present /\ job.opts.filesize # NoKey
               THEN job.opts.filesize ELSE <<>>
  IN IF own = <<>> THEN gfs ELSE own

\* lines 172, 180-182: the job's own ramp time, converted
JobRamptime(job) ==
  IF job.opts.present /\ job.opts.ramp_time # NoKey
    THEN _convert_value(job.opts.ramp_time, RAMPTIME_CONVERSION)
    ELSE Ok(Zero)

\* lines 187-188
ResolveRamptime(own, gramp) == IF own.m = 0 THEN gramp ELSE own

\* lines 191-192
StartTimeMsNoChain(prev, ts) == ts
StartTimeMs(prev, ts) == IF prev > 0 THEN prev * 1000 ELSE ts

RECURSIVE Pow10(_)
Pow10(e) == IF e = 0 THEN 1 ELSE 10 * Pow10(e - 1)

\* a converted ramp time as whole milliseconds and thousandths of one
RampMs(r) == IF r.e < 0 THEN r.m \div 1000 ELSE r.m * Pow10(r.e)
RampUs(r) == IF r.e < 0 THEN r.m % 1000 ELSE 0

\* a truncating division in place of round()
PyRoundFloor(ms, us) == ms \div 1000

\* line 198: round(x / 1000) for x = ms + us/1000; Python rounds a tie to
\* the even neighbour
PyRound(ms, us) ==
  LET q == ms \div 1000
      rem == (ms % 1000) * 1000 + us
  IN IF 2 * rem < 1000000 THEN q
     ELSE IF 2 * rem > 1000000 THEN q + 1
     ELSE IF q % 2 = 0 THEN q ELSE q + 1

\* line 197
StartTimeS(start_ms) == start_ms \div 1000

\* lines 194, 198
EndTimeS(start_ms, runtime, ramp) ==
  PyRound(start_ms + runtime + RampMs(ramp), RampUs(ramp))

\* lines 203-205
SkipJobNoDegenerate(jobname, filesize, start_s, end_s, r) ==
  \/ (jobname = "" /\ filesize = <<>>)
  \/ (r.iops = 0 /\ r.bw = 0 /\ r.min = 0 /\ r.max = 0 /\ r.mean = 0)

SkipJobEither(jobname, filesize, start_s, end_s, r) ==
  \/ (jobname = "" \/ filesize = <<>>)
  \/ start_s = end_s
  \/ (r.iops = 0 /\ r.bw = 0 /\ r.min = 0 /\ r.max = 0 /\ r.mean = 0)

SkipJob(jobname, filesize, start_s, end_s, r) ==
  \/ (jobname = "" /\ filesize = <<>>)
  \/ start_s = end_s
  \/ (r.iops = 0 /\ r.bw = 0 /\ r.min = 0 /\ r.max = 0 /\ r.mean = 0)

\* line 213: int(numjobs)
NumThreads(numjobs) == IntOf(numjobs)

\* lines 215-224
Record(job, filesize_kb, numjobs, start_s, end_s) ==
  [jobname |-> job.jobname, filesize |-> filesize_kb, num_threads |-> numjobs,
   start_time |-> start_s, end_time |-> end_s,
   iops |-> job.read.iops, bw |-> job.read.bw,
   lat_ns |-> [min |-> job.read.min, max |-> job.read.max,
               mean |-> job.read.mean]]

NoRecord == Record(Job("", NoOpts, Read(AllZero, 0, {})), Zero, 0, 0, 0)

\* One iteration on job, as far as it gets: kind is "raise" (with err),
\* "skip" or "emit" (with rec); reached names the last step it ran.
Iteration(job, prev, gfs, gramp, ts) ==
  LET own      == JobRamptime(job)
      filesize == JobFilesize(job, gfs)
      ramp     == ResolveRamptime(own.val, gramp)
      start_ms == StartTimeMs(prev, ts)
      start_s  == StartTimeS(start_ms)
      end_s    == EndTimeS(start_ms, job.read.runtime, ramp)
      conv     == _convert_value(filesize, FILESIZE_CONVERSION)
      numjobs  == JobNumjobs(job)
      base     == [kind |-> "raise", err |-> "KeyError", reached |-> "metrics",
                   prev |-> prev, filesize |-> filesize, ramp |-> Zero,
                   start_time_s |-> 0, end_time_s |-> 0, rec |-> NoRecord]
      timed    == [base EXCEPT !.ramp = ramp, !.start_time_s = start_s,
                               !.end_time_s = end_s]
  IN IF MetricKeyError(job) THEN base
     ELSE IF own.err # "none"
       THEN [base EXCEPT !.err = own.err, !.reached = "ramp_time"]
     ELSE IF "runtime" \in job.read.missing
       THEN [base EXCEPT !.ramp = ramp, !.reached = "runtime"]
     ELSE IF SkipJob(job.jobname, filesize, start_s, end_s, job.read)
       THEN [timed EXCEPT !.kind = "skip", !.err = "none", !.reached = "filter"]
     ELSE IF conv.err # "none"
       THEN [timed EXCEPT !.err = conv.err, !.reached = "filesize"]
     ELSE IF ~IsInt(numjobs)
       THEN [timed EXCEPT !.err = "ValueError", !.reached = "numjobs"]
     ELSE [timed EXCEPT !.kind = "emit", !.err = "none", !.reached = "append",
                        !.rec = Record(job, conv.val, NumThreads(numjobs),
                                       start_s, end_s)]

---------------------------------------------------------------------------
(* _extract_metrics as a state machine.                                    *)

Pending == [err |-> "pending", val |-> Zero]

Init ==
  /\ fio_out \in Reports
  /\ pc = "start"
  /\ global_filesize = <<>>
  /\ global_ramptime_ms = Zero
  /\ i = 1
  /\ prev_endtime_s = 0
  /\ all_jobs = <<>>
  /\ raised = "none"
  /\ trail = <<>>
  /\ cv_value = <<>>
  /\ cv_dict = "none"
  /\ cv_out = Pending

\* lines 144-145
RaiseEmpty ==
  /\ pc = "start"
  /\ fio_out.empty
  /\ pc' = "raised"
  /\ raised' = "NoValuesError"
  /\ UNCHANGED <<fio_out, global_filesize, global_ramptime_ms, i,
                 prev_endtime_s, all_jobs, trail, convertVars>>

\* lines 150-151
GlobalFilesize(g) ==
  IF g.present /\ g.filesize # NoKey THEN g.filesize ELSE <<>>

\* lines 152-154
GlobalRamptime(g) ==
  IF g.present /\ g.ramp_time # NoKey
    THEN _convert_value(g.ramp_time, RAMPTIME_CONVERSION)
    ELSE Ok(Zero)

\* lines 147-158: the global options, then fio_out[JOBS] at the loop head
ReadGlobals ==
  /\ pc = "start"
  /\ ~fio_out.empty
  /\ LET gr == GlobalRamptime(fio_out.global) IN
       IF gr.err # "none"
         THEN /\ pc' = "raised"
              /\ raised' = gr.err
              /\ UNCHANGED <<global_filesize, global_ramptime_ms>>
       ELSE IF ~fio_out.hasJobs
         THEN /\ pc' = "raised"
              /\ raised' = "KeyError"
              /\ global_filesize' = GlobalFilesize(fio_out.global)
              /\ global_ramptime_ms' = gr.val
       ELSE /\ pc' = "loop"
            /\ raised' = "none"
            /\ global_filesize' = GlobalFilesize(fio_out.global)
            /\ global_ramptime_ms' = gr.val
  /\ UNCHANGED <<fio_out, i, prev_endtime_s, all_jobs, trail, convertVars>>

ThisIteration ==
  Iteration(fio_out.jobs[i], prev_endtime_s, global_filesize,
            global_ramptime_ms, fio_out.timestamp_ms)

InLoop == pc = "loop" /\ i <= Len(fio_out.jobs)

\* line 199, and line 208 for a skipped job: the value the next iteration
\* finds in prev_endtime_s
NextPrevKeep(kind, end_s) == end_s
NextPrev(kind, end_s) == IF kind = "skip" THEN 0 ELSE end_s

\* an exception leaves the loop body
LoopRaise ==
  /\ InLoop
  /\ ThisIteration.kind = "raise"
  /\ pc' = "raised"
  /\ raised' = ThisIteration.err
  /\ trail' = Append(trail, ThisIteration)
  /\ UNCHANGED <<fio_out, global_filesize, global_ramptime_ms, i,
                 prev_endtime_s, all_jobs, convertVars>>

\* lines 203-209
LoopSkip ==
  /\ InLoop
  /\ ThisIteration.kind = "skip"
  /\ prev_endtime_s' = NextPrev(ThisIteration.kind, ThisIteration.end_time_s)
  /\ i' = i + 1
  /\ trail' = Append(trail, ThisIteration)
  /\ UNCHANGED <<fio_out, pc, global_filesize, global_ramptime_ms, all_jobs,
                 raised, convertVars>>

\* lines 199, 211-224
LoopEmit ==
  /\ InLoop
  /\ ThisIteration.kind = "emit"
  /\ prev_endtime_s' = NextPrev(ThisIteration.kind, ThisIteration.end_time_s)
  /\ all_jobs' = Append(all_jobs, ThisIteration.rec)
  /\ i' = i + 1
  /\ trail' = Append(trail, ThisIteration)
  /\ UNCHANGED <<fio_out, pc, global_filesize, global_ramptime_ms, raised,
                 convertVars>>

\* lines 226-229
FinishNoCheck ==
  /\ pc = "loop"
  /\ i > Len(fio_out.jobs)
  /\ pc' = "returned"
  /\ raised' = "none"
  /\ UNCHANGED <<fio_out, global_filesize, global_ramptime_ms, i,
                 prev_endtime_s, all_jobs, trail, convertVars>>

Finish ==
  /\ pc = "loop"
  /\ i > Len(fio_out.jobs)
  /\ IF all_jobs = <<>>
       THEN pc' = "raised" /\ raised' = "NoValuesError"
       ELSE pc' = "returned" /\ raised' = "none"
  /\ UNCHANGED <<fio_out, global_filesize, global_ramptime_ms, i,
                 prev_endtime_s, all_jobs, trail, convertVars>>

Next == RaiseEmpty \/ ReadGlobals \/ LoopRaise \/ LoopSkip \/ LoopEmit \/ Finish

Spec == Init /\ [][Next]_vars

---------------------------------------------------------------------------
(* _convert_value on its own, applied to every short string.               *)

Alphabet == {"0", "7", "m", "s", "K", "b", "x", ".", " "}

Strings == UNION {[1..n -> Alphabet] : n \in 0..MaxLen}

Table(name) ==
  IF name = "filesize" THEN FILESIZE_CONVERSION ELSE RAMPTIME_CONVERSION

InitConvert ==
  /\ cv_value \in Strings
  /\ cv_dict \in {"filesize", "ramptime"}
  /\ cv_out = Pending
  /\ fio_out = Report(TRUE, FALSE, NoOpts, 0, <<>>)
  /\ pc = "idle"
  /\ global_filesize = <<>>
  /\ global_ramptime_ms = Zero
  /\ i = 1
  /\ prev_endtime_s = 0
  /\ all_jobs = <<>>
  /\ raised = "none"
  /\ trail = <<>>

Convert ==
  /\ pc = "idle"
  /\ cv_out = Pending
  /\ cv_out' = _convert_value(cv_value, Table(cv_dict))
  /\ UNCHANGED <<cv_value, cv_dict, extractVars>>

NextConvert == Convert

SpecConvert == InitConvert /\ [][NextConvert]_vars

---------------------------------------------------------------------------
(* Properties of _extract_metrics.                                         *)

Terminal == pc \in {"raised", "returned"}

\* the iteration got as far as the validity filter
Filtered(e) == e.reached \in {"filter", "filesize", "numjobs", "append"}

TimestampS == fio_out.timestamp_ms \div 1000

ZeroMetrics(job) ==
  /\ job.read.iops = 0
  /\ job.read.bw = 0
  /\ job.read.min = 0
  /\ job.read.max = 0
  /\ job.read.mean = 0

\* C1: with non-negative timestamp_ms, runtime and ramp times, every
\* emitted record has end_time > start_time (never start_time = end_time).
C1_EndAfterStart ==
  \A k \in DOMAIN all_jobs : all_jobs[k].end_time > all_jobs[k].start_time

\* a job with a name, a filesize and metrics was dropped only because its
\* window rounds to zero seconds, and another job was emitted
C1_Witness ==
  /\ pc = "returned"
  /\ \E k \in DOMAIN trail :
       /\ trail[k].kind = "skip"
       /\ trail[k].start_time_s = trail[k].end_time_s
       /\ fio_out.jobs[k].jobname # ""
       /\ fio_out.jobs[k].read.runtime > 0
       /\ ~ZeroMetrics(fio_out.jobs[k])

C3_Chained ==
  \A k \in DOMAIN trail :
    Filtered(trail[k]) =>
      /\ k = 1 => trail[k].start_time_s = TimestampS
      /\ (k > 1 /\ trail[k - 1].kind = "emit")
           => trail[k].start_time_s = trail[k - 1].rec.end_time

\* two jobs in a row were emitted
C3_Witness ==
  \E k \in DOMAIN trail :
    /\ k > 1
    /\ trail[k - 1].kind = "emit"
    /\ trail[k].kind = "emit"
    /\ trail[k].start_time_s > TimestampS

\* C4: the returned sequence is the subsequence, in source order, of the
\* jobs for which none of the three skip conditions holds (empty jobname
\* and empty resolved filesize; start_time_s = end_time_s; all five metrics
\* zero).
C4_ExactlyTheValidJobs ==
  pc = "returned" =>
    LET Valid(k) ==
          /\ ~(fio_out.jobs[k].jobname = "" /\ trail[k].filesize = <<>>)
          /\ trail[k].start_time_s # trail[k].end_time_s
          /\ ~ZeroMetrics(fio_out.jobs[k])
        kept == SelectSeq([k \in 1..Len(fio_out.jobs) |-> k], Valid)
    IN /\ Len(trail) = Len(fio_out.jobs)
       /\ Len(all_jobs) = Len(kept)
       /\ \A n \in DOMAIN kept :
            /\ all_jobs[n] = trail[kept[n]].rec
            /\ all_jobs[n].jobname = fio_out.jobs[kept[n]].jobname
            /\ all_jobs[n].iops = fio_out.jobs[kept[n]].read.iops
            /\ all_jobs[n].start_time = trail[kept[n]].start_time_s
            /\ all_jobs[n].end_time = trail[kept[n]].end_time_s
       /\ \A k \in DOMAIN trail : (trail[k].kind = "skip") <=> ~Valid(k)

\* a return where a job with an empty jobname but a filesize was kept and
\* another job was dropped
C4_Witness ==
  /\ pc = "returned"
  /\ \E k \in DOMAIN trail : trail[k].kind = "skip"
  /\ \E k \in DOMAIN trail :
       trail[k].kind = "emit" /\ fio_out.jobs[k].jobname = ""

\* the mapping has the option
HasOpt(o, key) == o.present /\ o[key] # NoKey

\* the ramp_time option of the mapping converts
RampOk(o) ==
  HasOpt(o, "ramp_time") =>
    _convert_value(o.ramp_time, RAMPTIME_CONVERSION).err = "none"

LacksMetricKey(job) ==
  job.read.missing \cap {"read", "iops", "bw", "lat_ns", "min", "max", "mean"} # {}

\* every key the loop indexes is there and every ramp_time converts
CleanInput ==
  /\ RampOk(fio_out.global)
  /\ \A k \in DOMAIN fio_out.jobs :
       fio_out.jobs[k].read.missing = {} /\ RampOk(fio_out.jobs[k].opts)

\* the job has every key and the filter drops it whatever its time window
StaticSkip(job) ==
  /\ job.read.missing = {}
  /\ \/ ZeroMetrics(job)
     \/ /\ job.jobname = ""
        /\ ~HasOpt(job.opts, "filesize")
        /\ ~HasOpt(fio_out.global, "filesize")

\* C5 as stated: an empty report, or a jobs list none of whose entries
\* survives the filter, always ends in NoValuesError and in no other error;
\* a return is never empty.
C5_Original ==
  Terminal =>
    /\ (fio_out.empty \/ (fio_out.hasJobs /\
          \A k \in DOMAIN fio_out.jobs : StaticSkip(fio_out.jobs[k])))
         => (pc = "raised" /\ raised = "NoValuesError")
    /\ pc = "returned" => all_jobs # <<>>

\* C5 amended: an empty report always ends in NoValuesError; so does a
\* report with a jobs list of which every job is skipped, provided every
\* indexed key is present and every ramp_time converts; a ramp_time in the
\* global options that does not convert ends in KeyError or ValueError and a
\* missing 'jobs' key in KeyError, before any job is looked at; a return is
\* never empty.
C5_Amended ==
  /\ (Terminal /\ fio_out.empty) => (pc = "raised" /\ raised = "NoValuesError")
  /\ (Terminal /\ ~fio_out.empty /\ fio_out.hasJobs /\ CleanInput
        /\ \A k \in DOMAIN trail : trail[k].kind = "skip")
       => /\ pc = "raised"
          /\ raised = "NoValuesError"
          /\ Len(trail) = Len(fio_out.jobs)
  /\ (Terminal /\ ~fio_out.empty /\ ~RampOk(fio_out.global))
       => (raised \in {"KeyError", "ValueError"} /\ trail = <<>>)
  /\ (Terminal /\ ~fio_out.empty /\ RampOk(fio_out.global) /\ ~fio_out.hasJobs)
       => (raised = "KeyError" /\ trail = <<>>)
  /\ pc = "returned" => all_jobs # <<>>

\* every job of a non-empty jobs list was skipped, for a degenerate time
\* window among other reasons, and the call ended in NoValuesError
C5_Witness ==
  /\ raised = "NoValuesError"
  /\ Len(trail) = MaxJobs
  /\ \E k \in DOMAIN trail :
       trail[k].kind = "skip" /\ ~StaticSkip(fio_out.jobs[k])

\* C6 as stated: a job that lacks `read` or one of iops, bw, lat_ns.min,
\* lat_ns.max, lat_ns.mean is processed as if the value were zero and
\* reaches the validity filter.
C6_Original ==
  \A k \in DOMAIN trail :
    (/\ LacksMetricKey(fio_out.jobs[k])
     /\ RampOk(fio_out.jobs[k].opts)
     /\ "runtime" \notin fio_out.jobs[k].read.missing)
      => Filtered(trail[k])

\* C6 amended: a job that lacks `read` or one of those fields ends the whole
\* extraction with KeyError at that job: the job does not reach the filter,
\* no later job is processed and nothing is returned.
C6_Amended ==
  \A k \in DOMAIN trail :
    LacksMetricKey(fio_out.jobs[k]) =>
      /\ trail[k].kind = "raise"
      /\ trail[k].err = "KeyError"
      /\ trail[k].reached = "metrics"
      /\ k = Len(trail)
      /\ pc = "raised"
      /\ raised = "KeyError"

\* a record had been collected when a job without lat_ns.mean ended the call
C6_Witness ==
  /\ pc = "raised"
  /\ all_jobs # <<>>
  /\ \E k \in DOMAIN trail :
       fio_out.jobs[k].read.missing = {"mean"}

\* numeric equality of m * 10^e values
NumEq(a, b) ==
  IF a.e >= b.e THEN a.m * Pow10(a.e - b.e) = b.m
                ELSE b.m * Pow10(b.e - a.e) = a.m

\* C7: whenever the job has the option, its own filesize and ramp_time are
\* used and the global value ignored; the global value is used only when
\* the job has none, the default when neither has; also for a per-job value
\* that converts to 0.
C7_PerJobFirst ==
  \A k \in DOMAIN trail :
    Filtered(trail[k]) =>
      LET job == fio_out.jobs[k]
          g == fio_out.global
          ramp == IF HasOpt(job.opts, "ramp_time")
                    THEN _convert_value(job.opts.ramp_time, RAMPTIME_CONVERSION).val
                  ELSE IF HasOpt(g, "ramp_time")
                    THEN _convert_value(g.ramp_time, RAMPTIME_CONVERSION).val
                  ELSE Zero
          filesize == IF HasOpt(job.opts, "filesize") THEN job.opts.filesize
                      ELSE IF HasOpt(g, "filesize") THEN g.filesize
                      ELSE <<>>
      IN /\ trail[k].filesize = filesize
         /\ NumEq(trail[k].ramp, ramp)
         /\ trail[k].end_time_s =
              EndTimeS(StartTimeMs(trail[k].prev, fio_out.timestamp_ms),
                       job.read.runtime, ramp)

\* C8: num_threads of an emitted record is the job's own numjobs, else the
\* numjobs of the global options, else 1.
C8_NumThreads ==
  \A k \in DOMAIN trail :
    trail[k].kind = "emit" =>
      LET job == fio_out.jobs[k]
          g == fio_out.global
      IN trail[k].rec.num_threads =
           IF HasOpt(job.opts, "numjobs") THEN IntOf(job.opts.numjobs)
           ELSE IF HasOpt(g, "numjobs") THEN IntOf(g.numjobs)
           ELSE 1

\* the power of ten the claim gives each suffix: b 0.001, k/kb 1, m/mb 1000,
\* g/gb 10^6, t/tb 10^9, p/pb 10^12
KbExponent(letter) ==
  CASE letter \in {"b", "B"} -> -3
    [] letter \in {"k", "K"} -> 0
    [] letter \in {"m", "M"} -> 3
    [] letter \in {"g", "G"} -> 6
    [] letter \in {"t", "T"} -> 9
    [] letter \in {"p", "P"} -> 12

\* C10: the filesize of an emitted record is an integer: the leading number
\* of the resolved filesize times the kilobyte multiplier of its suffix,
\* truncated.
C10_FilesizeKb ==
  \A k \in DOMAIN trail :
    trail[k].kind = "emit" =>
      LET fs == trail[k].filesize
          n == IntOf(SelectSeq(fs, IsDigit))
          e == KbExponent(SelectSeq(fs, IsAlpha)[1])
          kb == IF e < 0 THEN Num(n \div 1000, 0) ELSE Num(n, e)
      IN /\ trail[k].rec.filesize.e >= 0
         /\ NumEq(trail[k].rec.filesize, kb)

---------------------------------------------------------------------------
(* Properties of _convert_value.                                           *)

SameClass(c, d) == (IsDigit(c) /\ IsDigit(d)) \/ (IsAlpha(c) /\ IsAlpha(d))

\* positions a..b of s are a maximal run of digits or a maximal run of letters
IsRun(s, a, b) ==
  /\ a <= b
  /\ \A x \in a..b : SameClass(s[a], s[x])
  /\ (a = 1 \/ ~SameClass(s[a - 1], s[a]))
  /\ (b = Len(s) \/ ~SameClass(s[b], s[b + 1]))

RunSet(s) == {r \in (DOMAIN s) \X (DOMAIN s) : IsRun(s, r[1], r[2])}

\* the letters of u match a key of the table, ignoring case
LetterIndex(c) ==
  CHOOSE k \in DOMAIN LowerSeq : LowerSeq[k] = c \/ UpperSeq[k] = c

Keys(u, table) ==
  {key \in DOMAIN table :
     /\ Len(key) = Len(u)
     /\ \A x \in DOMAIN u :
          IsAlpha(u[x]) /\ LetterIndex(u[x]) = LetterIndex(key[x])}

\* one run of digits followed by one run of letters and nothing else
WellShaped(s) ==
  \E k \in 1..(Len(s) - 1) :
    /\ \A x \in 1..k : IsDigit(s[x])
    /\ \A x \in (k + 1)..Len(s) : IsAlpha(s[x])

\* C9 as stated: _convert_value succeeds only on a well-shaped string whose
\* unit is a key of the table, fails with KeyError (Unknown Unit) when the
\* unit is not in the table and with ValueError (Malformed Value) whenever
\* the string is not well-shaped.
C9_Original ==
  cv_out # Pending =>
    LET unit == SelectSeq(cv_value, IsAlpha)
        known == Keys(unit, Table(cv_dict)) # {}
    IN /\ cv_out.err = "none" => (WellShaped(cv_value) /\ known)
       /\ (WellShaped(cv_value) /\ ~known) => cv_out.err = "KeyError"
       /\ ~WellShaped(cv_value) => cv_out.err = "ValueError"

\* C9 amended: characters that are neither digits nor letters are ignored.
\* _convert_value succeeds exactly when the string holds exactly two maximal
\* runs, the first of digits and the second of letters that are, ignoring
\* case, a key of the table, and then returns int(first) * multiplier; it
\* fails with KeyError exactly when there are two runs and the second is no
\* key (a unit written before the number included), and with ValueError
\* when the runs are not two, or the first is letters and the second a key.
C9_Amended ==
  cv_out # Pending =>
    LET rs == RunSet(cv_value)
        two == Cardinality(rs) = 2
        r1 == CHOOSE r \in rs : \A q \in rs : r[1] <= q[1]
        r2 == CHOOSE r \in rs : \A q \in rs : r[1] >= q[1]
        first == SubSeq(cv_value, r1[1], r1[2])
        second == SubSeq(cv_value, r2[1], r2[2])
        keys == Keys(second, Table(cv_dict))
        mult == Table(cv_dict)[CHOOSE key \in keys : TRUE]
    IN /\ cv_out.err = "none" <=> (two /\ IsDigit(first[1]) /\ keys # {})
       /\ cv_out.err = "KeyError" <=> (two /\ keys = {})
       /\ cv_out.err = "ValueError" <=>
            (~two \/ (~IsDigit(first[1]) /\ keys # {}))
       /\ cv_out.err = "none" =>
            cv_out.val = Num(IntOf(first) * mult.c, mult.e)
       /\ WellShaped(cv_value) => cv_out.err # "ValueError"

\* a string with a separator between number and unit, in upper case, converts
C9_Witness ==
  /\ cv_out.err = "none"
  /\ ~WellShaped(cv_value)
  /\ \E x \in DOMAIN cv_value : cv_value[x] = "K"

---------------------------------------------------------------------------
(* The time window of a job.                                               *)

Abs(x) == IF x < 0 THEN -x ELSE x

\* C11: for every job that reaches the filter, with start_time_ms the
\* report's timestamp_ms or 1000 times the end time of the record emitted
\* just before it, start_time is start_time_ms // 1000 and end_time is a
\* whole second nearest to (start_time_ms + read.runtime + resolved ramp
\* time) / 1000, the ramp time counted once.  Times are compared in
\* microseconds, the finest unit of a ramp time.
C11_TimeWindow ==
  \A k \in DOMAIN trail :
    Filtered(trail[k]) =>
      LET job == fio_out.jobs[k]
          start_ms == IF k > 1 /\ trail[k - 1].kind = "emit"
                        THEN trail[k - 1].rec.end_time * 1000
                        ELSE fio_out.timestamp_ms
          ramp_us == trail[k].ramp.m * Pow10(trail[k].ramp.e + 3)
          end_us == (start_ms + job.read.runtime) * 1000 + ramp_us
      IN /\ trail[k].start_time_s = start_ms \div 1000
         /\ 2 * Abs(trail[k].end_time_s * 1000000 - end_us) <= 1000000

\* the worked example without its leading 1653027: timestamp_ms ...155355,
\* runtime 60476 and ramp_time "10s" give start_time ...155, end_time ...226
C11_Witness ==
  \E k \in DOMAIN all_jobs :
    /\ fio_out.timestamp_ms = 155355
    /\ all_jobs[k].start_time = 155
    /\ all_jobs[k].end_time = 226
    /\ trail[k].ramp = Num(10, 3)
    /\ fio_out.jobs[k].read.runtime = 60476

=============================================================================
